---- MODULE Spec2Model ----
(***************************************************************************)
(* The Backrooms: the per-frame game loop of src/unnamed/part_000 (React   *)
(* component App) as a state machine.                                      *)
(*                                                                         *)
(* Scales.  Lengths are integers in units of 0.005 world units (speed 0.12 *)
(* = 24, radius 0.4 = 80, gravity 0.015 = 3, one world unit = 200).  Times *)
(* are whole seconds.  The sanity gain is in units of 0.001.  Yaw (rotY)   *)
(* is kept in quarter turns modulo 4, so that cos and sin are exact; pitch *)
(* (rotX) is in units of 0.5 rad.  The forward/side axes are whole units.  *)
(* Light intensity is in units of 0.1.  Touch positions are in px; a look  *)
(* drag of 314 px is taken as a quarter turn (the code's 0.005 rad per px  *)
(* gives 314.16 px).                                                       *)
(* Arithmetic is exact; the code's IEEE doubles differ from it only by     *)
(* rounding residue (about 1e-16).                                         *)
(*                                                                         *)
(* React.  gameState, level and flashlightOn are React state.  A setState  *)
(* made in a click or key handler is committed, and its effects run,       *)
(* before the handler's event ends, so such a handler is one action.  A    *)
(* setState made inside the frame callback is committed later: `dirty`     *)
(* says that a commit is owed, and Commit is the re-render with its effect *)
(* cleanup and effect body.  Until then the old loop keeps its frame       *)
(* callback; isGameEnded is what the code uses to silence it.              *)
(***************************************************************************)
EXTENDS Integers, FiniteSets, Sequences, TLC

VARIABLES
    gameState,        \* useState: "MENU" | "PLAYING" | "WON" | "LOST"
    level,            \* useState: 0 | 1
    flashlightOn,     \* useState, mirrored into isFlashlightOnRef by its effect
    isGameEnded,      \* isGameEndedRef
    startTime,        \* startTimeRef (seconds)
    flashlightTimer,  \* flashlightTimerRef (seconds)
    sanityGain,       \* sanityAudioGainRef.current.gain.value (0.001)
    audioCtx,         \* audioCtxRef.current !== null
    player,           \* playerRef: [x, z, y, vy, dir, pitch, speed, radius]
    input,            \* inputRef: [fwd, side, rotX, rotY]
    touchIdLeft,      \* touchIdLeft ref: Null or a touch identifier
    touchIdRight,     \* touchIdRight ref
    walls,            \* wallsRef: array of [minX, maxX, minZ, maxZ]
    doorX, doorZ,     \* door position captured by the live loop's closure
    loopLevel,        \* `level` as captured by the live loop's closure
    clockOld,         \* THREE.Clock.oldTime of the live loop (seconds)
    loopLive,         \* a frame callback of the loop is registered
    pendingFrames,    \* ids of the frame callbacks requested and neither run nor cancelled
    frameId,          \* frameIdRef: id of the last requested frame callback
    surfaces,         \* number of renderer canvases appended to the mount element
    lightIntensity,   \* pLight.intensity of the loop's flashlight (0.1)
    startX, startY,   \* startX, startY refs: where the joystick touch began (px)
    lastLookX, lastLookY, \* lastLookX, lastLookY refs: last look-touch position (px)
    activeTouches,    \* identifiers of the touches the browser holds on the screen
    dirty,            \* a React commit (re-render + effects) is owed
    now,              \* wall clock: Date.now()/1000, performance.now()/1000
    probe             \* inputs and result of the last stand-alone collision query

vars == <<gameState, level, flashlightOn, isGameEnded, startTime,
          flashlightTimer, sanityGain, audioCtx, player, input,
          touchIdLeft, touchIdRight, walls, doorX, doorZ, loopLevel,
          clockOld, loopLive, pendingFrames, frameId, surfaces,
          lightIntensity, startX, startY, lastLookX, lastLookY,
          activeTouches, dirty, now, probe>>

Null == -1                \* null in a touch slot; touch identifiers are >= 0

----------------------------------------------------------------------------
(* Program constants *)

TimeBudget == 300        \* seconds of countdown
SanityThreshold == 15    \* seconds of flashlight before the voices start
GainCeiling == 200       \* 0.2
GainUp == 1              \* 0.001 per tick
GainDown == 10           \* 0.01 per tick
Gravity == 3             \* 0.015 per tick
JumpForce == 30          \* 0.15
GroundTolerance == 2     \* 0.01
DoorReach == 300         \* 1.5
PlayerSpeed == 24        \* 0.12
PlayerRadius == 80       \* 0.4
PitchLimit == 3          \* 1.5 rad
SafeZone == 800          \* 4 units around the spawn and around the door
WallLong == 800          \* inner wall footprint: 4
WallShort == 200         \* inner wall footprint: 1
ArenaHalf == 5000        \* boundary walls are centred at +-25
BoundaryLength == 10200  \* 51
BoundaryThickness == 200 \* 1
WallCount0 == 25
WallCount1 == 35
DoorDistMin == 3000      \* 15
DoorDistSpan == 1400     \* 7
LightBase0 == 8          \* 0.8, the flashlight at level 0
LightBase1 == 10         \* 1.0, the flashlight at level 1
LightInitial == 8        \* 0.8, the intensity the PointLight is constructed with
JoyRadius == 60          \* px
ButtonStrip == 150       \* px reserved at the bottom of the screen
LookQuarter == 314       \* px of look drag per quarter turn: (pi/2) / 0.005
LookPitch == 100         \* px of look drag per 0.5 rad: 0.5 / 0.005

RandomSteps == 7         \* Math.random() is drawn from {0, 1/7, ..., 6/7}

----------------------------------------------------------------------------
(* Numeric helpers *)

Abs(n) == IF n < 0 THEN -n ELSE n
Min(a, b) == IF a < b THEN a ELSE b
Max(a, b) == IF a > b THEN a ELSE b

\* Math.cos / Math.sin at a whole number of quarter turns
Cos(q) == CASE q % 4 = 0 -> 1 [] q % 4 = 1 -> 0 [] q % 4 = 2 -> -1 [] OTHER -> 0
Sin(q) == CASE q % 4 = 0 -> 0 [] q % 4 = 1 -> 1 [] q % 4 = 2 -> 0 [] OTHER -> -1

----------------------------------------------------------------------------
(* Collision grid *)

checkCollisionInclusive(x, z, radius, ws) ==
    \E i \in 1..Len(ws) :
        /\ x + radius >= ws[i].minX
        /\ x - radius <= ws[i].maxX
        /\ z + radius >= ws[i].minZ
        /\ z - radius <= ws[i].maxZ

\* checkCollision, with the player's radius and the wall array passed in
checkCollision(x, z, radius, ws) ==
    \E i \in 1..Len(ws) :
        /\ x + radius > ws[i].minX
        /\ x - radius < ws[i].maxX
        /\ z + radius > ws[i].minZ
        /\ z - radius < ws[i].maxZ

----------------------------------------------------------------------------
(* Level generator: the MAP GENERATION part of the loop effect *)

\* the bounds addWall pushes for a box centred at (x, z) of footprint w by d
addWall(x, z, w, d) ==
    [minX |-> x - w \div 2, maxX |-> x + w \div 2,
     minZ |-> z - d \div 2, maxZ |-> z + d \div 2]

OuterWalls ==
    << addWall(0, -ArenaHalf, BoundaryLength, BoundaryThickness),
       addWall(0, ArenaHalf, BoundaryLength, BoundaryThickness),
       addWall(-ArenaHalf, 0, BoundaryThickness, BoundaryLength),
       addWall(ArenaHalf, 0, BoundaryThickness, BoundaryLength) >>

wallCountSwapped(lv) == IF lv = 0 THEN WallCount1 ELSE WallCount0

wallCount(lv) == IF lv = 0 THEN WallCount0 ELSE WallCount1

DoorDistFromZero(r) == (r * (DoorDistMin + DoorDistSpan)) \div RandomSteps

\* doorDist = 15 + Math.random() * 7, for the draw r / RandomSteps of [0, 1)
DoorDist(r) == DoorDistMin + (r * DoorDistSpan) \div RandomSteps

\* the door for a drawn angle (quarter turns) and distance
DoorX(angle, dist) == Sin(angle) * dist
DoorZ(angle, dist) == Cos(angle) * dist

RejectedNearDoorOnly(sm, dX, dZ) ==
    Abs(sm.rx - dX) < SafeZone /\ Abs(sm.rz - dZ) < SafeZone

\* the two `continue` tests of the inner-wall loop, for one drawn sample
Rejected(sm, dX, dZ) ==
    \/ Abs(sm.rx) < SafeZone /\ Abs(sm.rz) < SafeZone
    \/ Abs(sm.rx - dX) < SafeZone /\ Abs(sm.rz - dZ) < SafeZone

\* the inner-wall loop over the drawn samples: each is tried once, in order
RECURSIVE InnerWalls(_, _, _)
InnerWalls(samples, dX, dZ) ==
    IF samples = << >> THEN << >>
    ELSE LET sm == Head(samples)
             rd == IF sm.rw = WallShort THEN WallLong ELSE WallShort
             rest == InnerWalls(Tail(samples), dX, dZ)
         IN  IF Rejected(sm, dX, dZ) THEN rest
             ELSE << addWall(sm.rx, sm.rz, sm.rw, rd) >> \o rest

GenerateWalls(samples, dX, dZ) == OuterWalls \o InnerWalls(samples, dX, dZ)

----------------------------------------------------------------------------
(* The state as one record, so that handlers, effects and the frame        *)
(* callback compose.                                                       *)

St ==
    [gameState |-> gameState, level |-> level, flashlightOn |-> flashlightOn,
     isGameEnded |-> isGameEnded, startTime |-> startTime,
     flashlightTimer |-> flashlightTimer, sanityGain |-> sanityGain,
     audioCtx |-> audioCtx, player |-> player, input |-> input,
     touchIdLeft |-> touchIdLeft, touchIdRight |-> touchIdRight,
     walls |-> walls, doorX |-> doorX, doorZ |-> doorZ,
     loopLevel |-> loopLevel, clockOld |-> clockOld,
     loopLive |-> loopLive, pendingFrames |-> pendingFrames,
     frameId |-> frameId, surfaces |-> surfaces,
     lightIntensity |-> lightIntensity,
     startX |-> startX, startY |-> startY,
     lastLookX |-> lastLookX, lastLookY |-> lastLookY,
     activeTouches |-> activeTouches, dirty |-> dirty]

Apply(s) ==
    /\ gameState' = s.gameState
    /\ level' = s.level
    /\ flashlightOn' = s.flashlightOn
    /\ isGameEnded' = s.isGameEnded
    /\ startTime' = s.startTime
    /\ flashlightTimer' = s.flashlightTimer
    /\ sanityGain' = s.sanityGain
    /\ audioCtx' = s.audioCtx
    /\ player' = s.player
    /\ input' = s.input
    /\ touchIdLeft' = s.touchIdLeft
    /\ touchIdRight' = s.touchIdRight
    /\ walls' = s.walls
    /\ doorX' = s.doorX
    /\ doorZ' = s.doorZ
    /\ loopLevel' = s.loopLevel
    /\ clockOld' = s.clockOld
    /\ loopLive' = s.loopLive
    /\ pendingFrames' = s.pendingFrames
    /\ frameId' = s.frameId
    /\ surfaces' = s.surfaces
    /\ lightIntensity' = s.lightIntensity
    /\ startX' = s.startX
    /\ startY' = s.startY
    /\ lastLookX' = s.lastLookX
    /\ lastLookY' = s.lastLookY
    /\ activeTouches' = s.activeTouches
    /\ dirty' = s.dirty

InitialPlayer ==
    [x |-> 0, z |-> 0, y |-> 0, vy |-> 0, dir |-> 0, pitch |-> 0,
     speed |-> PlayerSpeed, radius |-> PlayerRadius]

InitialInput == [fwd |-> 0, side |-> 0, rotX |-> 0, rotY |-> 0]

----------------------------------------------------------------------------
(* The frame callback *)

\* the flashlight's intensity for the level the loop was built for
LightBase(lv) == IF lv = 0 THEN LightBase0 ELSE LightBase1

FlashlightLogicNoCeiling(s, dt, flick) ==
    IF s.flashlightOn
    THEN LET ft == s.flashlightTimer + dt
             base == LightBase(s.loopLevel)
         IN  [s EXCEPT !.flashlightTimer = ft,
                       !.sanityGain = IF ft > SanityThreshold
                                      THEN s.sanityGain + GainUp
                                      ELSE 0,
                       !.lightIntensity = IF ft > SanityThreshold /\ flick
                                          THEN base \div 2 ELSE base]
    ELSE [s EXCEPT !.lightIntensity = 0,
                   !.flashlightTimer = Max(0, s.flashlightTimer - dt * 2),
                   !.sanityGain = Max(0, s.sanityGain - GainDown)]

FlashlightLogicFlickerCompounds(s, dt, flick) ==
    IF s.flashlightOn
    THEN LET ft == s.flashlightTimer + dt
         IN  [s EXCEPT !.flashlightTimer = ft,
                       !.sanityGain = IF ft > SanityThreshold
                                      THEN Min(GainCeiling, s.sanityGain + GainUp)
                                      ELSE 0,
                       !.lightIntensity = IF ft > SanityThreshold
                                          THEN IF flick THEN s.lightIntensity \div 2
                                               ELSE s.lightIntensity
                                          ELSE LightBase(s.loopLevel)]
    ELSE [s EXCEPT !.lightIntensity = 0,
                   !.flashlightTimer = Max(0, s.flashlightTimer - dt * 2),
                   !.sanityGain = Max(0, s.sanityGain - GainDown)]

FlashlightLogicSlowCooldown(s, dt, flick) ==
    IF s.flashlightOn
    THEN LET ft == s.flashlightTimer + dt
             base == LightBase(s.loopLevel)
         IN  [s EXCEPT !.flashlightTimer = ft,
                       !.sanityGain = IF ft > SanityThreshold
                                      THEN Min(GainCeiling, s.sanityGain + GainUp)
                                      ELSE 0,
                       !.lightIntensity = IF ft > SanityThreshold /\ flick
                                          THEN base \div 2 ELSE base]
    ELSE [s EXCEPT !.lightIntensity = 0,
                   !.flashlightTimer = Max(0, s.flashlightTimer - dt),
                   !.sanityGain = Max(0, s.sanityGain - GainDown)]

\* FLASHLIGHT SANITY LOGIC; flick is the outcome of Math.random() > 0.8
FlashlightLogic(s, dt, flick) ==
    IF s.flashlightOn
    THEN LET ft == s.flashlightTimer + dt
             base == LightBase(s.loopLevel)
         IN  [s EXCEPT !.flashlightTimer = ft,
                       !.sanityGain = IF ft > SanityThreshold
                                      THEN Min(GainCeiling, s.sanityGain + GainUp)
                                      ELSE 0,
                       !.lightIntensity = IF ft > SanityThreshold /\ flick
                                          THEN base \div 2 ELSE base]
    ELSE [s EXCEPT !.lightIntensity = 0,
                   !.flashlightTimer = Max(0, s.flashlightTimer - dt * 2),
                   !.sanityGain = Max(0, s.sanityGain - GainDown)]

\* the outcomes Math.random() > 0.8 can have in a frame run at time t: the
\* draw is made only where the flashlight is on and its timer is past 15 s
FlickerDraws(s, t) ==
    IF /\ ~s.isGameEnded
       /\ s.flashlightOn
       /\ s.flashlightTimer + (t - s.clockOld) > SanityThreshold
    THEN BOOLEAN
    ELSE {FALSE}

\* TIMER LOGIC: remaining seconds at wall-clock time t
Remaining(s, t) == Max(0, TimeBudget - (t - s.startTime))

TimeExpiredStrict(s, t) == TimeBudget - (t - s.startTime) < 0

TimeExpiredByFrameDelta(s, t) == TimeBudget - (t - s.clockOld) <= 0

TimeExpired(s, t) == Remaining(s, t) <= 0

\* DOOR LOGIC: Math.hypot(player.x - doorX, player.z - doorZ) < 1.5
NearDoor(s) ==
    (s.player.x - s.doorX) * (s.player.x - s.doorX)
      + (s.player.z - s.doorZ) * (s.player.z - s.doorZ) < DoorReach * DoorReach

DoorLogicKeepsTimer(s, t) ==
    IF s.loopLevel = 0
    THEN [s EXCEPT !.level = 1, !.player.x = 0, !.player.z = 0,
                   !.flashlightTimer = 0, !.dirty = TRUE]
    ELSE [s EXCEPT !.isGameEnded = TRUE, !.gameState = "WON", !.dirty = TRUE]

DoorLogicNoTerminalFlag(s, t) ==
    IF s.loopLevel = 0
    THEN [s EXCEPT !.level = 1, !.player.x = 0, !.player.z = 0,
                   !.startTime = t, !.flashlightTimer = 0, !.dirty = TRUE]
    ELSE [s EXCEPT !.gameState = "WON", !.dirty = TRUE]

DoorLogicWinsAtOnce(s, t) ==
    [s EXCEPT !.isGameEnded = TRUE, !.gameState = "WON", !.dirty = TRUE]

DoorLogicResetsAgain(s, t) ==
    [s EXCEPT !.level = 1, !.player.x = 0, !.player.z = 0,
              !.startTime = t, !.flashlightTimer = 0, !.dirty = TRUE]

\* the door branch: level advance at level 0, win otherwise
DoorLogic(s, t) ==
    IF s.loopLevel = 0
    THEN [s EXCEPT !.level = 1, !.player.x = 0, !.player.z = 0,
                   !.startTime = t, !.flashlightTimer = 0, !.dirty = TRUE]
    ELSE [s EXCEPT !.isGameEnded = TRUE, !.gameState = "WON", !.dirty = TRUE]

PhysicsNoVelocityReset(p) ==
    LET vy1 == p.vy - Gravity
        y1 == p.y + vy1
    IN  IF y1 < 0 THEN [p EXCEPT !.y = 0, !.vy = vy1]
        ELSE [p EXCEPT !.y = y1, !.vy = vy1]

\* PHYSICS (GRAVITY & JUMP)
Physics(p) ==
    LET vy1 == p.vy - Gravity
        y1 == p.y + vy1
    IN  IF y1 < 0 THEN [p EXCEPT !.y = 0, !.vy = 0]
        ELSE [p EXCEPT !.y = y1, !.vy = vy1]

\* MOVEMENT: the deltas for the input vector, and the two axis-wise moves
DeltaX(p, in) == (in.fwd * Sin(in.rotY) + in.side * Cos(in.rotY)) * p.speed
DeltaZ(p, in) == (in.fwd * Cos(in.rotY) - in.side * Sin(in.rotY)) * p.speed

MovementChecksZFromOldX(p, in, ws) ==
    LET dx == DeltaX(p, in)
        dz == DeltaZ(p, in)
        x1 == IF ~checkCollision(p.x - dx, p.z, p.radius, ws) THEN p.x - dx ELSE p.x
        z1 == IF ~checkCollision(p.x, p.z - dz, p.radius, ws) THEN p.z - dz ELSE p.z
    IN  [p EXCEPT !.x = x1, !.z = z1]

MovementIgnoresWalls(p, in, ws) ==
    [p EXCEPT !.x = p.x - DeltaX(p, in), !.z = p.z - DeltaZ(p, in)]

Movement(p, in, ws) ==
    LET dx == DeltaX(p, in)
        dz == DeltaZ(p, in)
        x1 == IF ~checkCollision(p.x - dx, p.z, p.radius, ws) THEN p.x - dx ELSE p.x
        z1 == IF ~checkCollision(x1, p.z - dz, p.radius, ws) THEN p.z - dz ELSE p.z
    IN  [p EXCEPT !.x = x1, !.z = z1]

FrameDoorFirst(s, t, flick) ==
    LET dt == t - s.clockOld
        s1 == [FlashlightLogic(s, dt, flick) EXCEPT !.clockOld = t]
    IN  IF NearDoor(s1) THEN DoorLogic(s1, t)
        ELSE IF TimeExpired(s1, t)
        THEN [s1 EXCEPT !.isGameEnded = TRUE, !.gameState = "LOST", !.dirty = TRUE]
        ELSE [s1 EXCEPT !.player = Movement(Physics(s1.player), s1.input, s1.walls)]

\* animate past its isGameEnded test, run at wall-clock time t
Frame(s, t, flick) ==
    LET dt == t - s.clockOld
        s1 == [FlashlightLogic(s, dt, flick) EXCEPT !.clockOld = t]
    IN  IF TimeExpired(s1, t)
        THEN [s1 EXCEPT !.isGameEnded = TRUE, !.gameState = "LOST", !.dirty = TRUE]
        ELSE IF NearDoor(s1) THEN DoorLogic(s1, t)
        ELSE [s1 EXCEPT !.player = Movement(Physics(s1.player), s1.input, s1.walls)]

\* requestAnimationFrame(animate) with its id stored in frameIdRef.  Ids are
\* never reused by the browser; the model takes the least id that is not
\* pending, which is as good because every request overwrites frameIdRef.
requestFrame(s) ==
    LET id == CHOOSE n \in 1..(Cardinality(s.pendingFrames) + 1) :
                  n \notin s.pendingFrames
    IN  [s EXCEPT !.pendingFrames = @ \cup {id}, !.frameId = id]

\* cancelAnimationFrame(id): no effect unless that callback is pending
cancelFrame(s, id) == [s EXCEPT !.pendingFrames = @ \ {id}]

animateNoEndedTest(s, t, flick) == Frame(requestFrame(s), t, flick)

\* animate: the frame callback
animate(s, t, flick) ==
    LET s0 == requestFrame(s)
    IN  IF s0.isGameEnded THEN s0 ELSE Frame(s0, t, flick)

----------------------------------------------------------------------------
(* The loop effect (deps gameState, level) and the React commit *)

\* the effect body for PLAYING: a new renderer, flashlight and level, a new
\* clock, the first animate()
LoopEffect(s, t, angle, dist, samples, flick) ==
    LET dX == DoorX(angle, dist)
        dZ == DoorZ(angle, dist)
        s1 == [s EXCEPT !.isGameEnded = FALSE,
                        !.surfaces = @ + 1,
                        !.lightIntensity = LightInitial,
                        !.walls = GenerateWalls(samples, dX, dZ),
                        !.doorX = dX, !.doorZ = dZ,
                        !.loopLevel = s.level,
                        !.clockOld = t,
                        !.loopLive = TRUE]
    IN  animate(s1, t, flick)

LoopCleanupKeepsFrame(s) ==
    IF s.loopLive
    THEN [s EXCEPT !.surfaces = @ - 1, !.lightIntensity = 0, !.loopLive = FALSE]
    ELSE s

\* the cleanup the last run of the effect body returned, if it returned one:
\* cancelAnimationFrame(frameIdRef.current), then the canvas is removed; the
\* scene and its flashlight are the closure's and go with it
LoopCleanup(s) ==
    IF s.loopLive
    THEN [cancelFrame(s, s.frameId) EXCEPT !.surfaces = @ - 1,
                                           !.lightIntensity = 0,
                                           !.loopLive = FALSE]
    ELSE s

\* the outcomes of the flicker draw in the first animate() of the loop that
\* a commit of s at time t creates (none is created unless s is PLAYING)
LoopFlickerDraws(s, t) ==
    FlickerDraws([s EXCEPT !.isGameEnded = (s.gameState # "PLAYING"),
                           !.clockOld = t], t)

\* a commit that changed gameState or level: the cleanup, then the body
RunEffects(s, t, angle, dist, samples, flick) ==
    LET s0 == [LoopCleanup(s) EXCEPT !.dirty = FALSE]
    IN  IF s0.gameState # "PLAYING" THEN s0
        ELSE LoopEffect(s0, t, angle, dist, samples, flick)

----------------------------------------------------------------------------
(* Handlers, as functions of the state *)

\* initAudio: the graph is built once; the sanity gain node starts silent
initAudio(s) ==
    IF s.audioCtx THEN s
    ELSE [s EXCEPT !.audioCtx = TRUE, !.sanityGain = 0]

handleStartKeepsLevel(s, t) ==
    initAudio([s EXCEPT !.gameState = "PLAYING",
                        !.startTime = t, !.flashlightTimer = 0,
                        !.flashlightOn = TRUE,
                        !.player = InitialPlayer, !.input = InitialInput])

\* handleStart, up to the commit of its state updates
handleStart(s, t) ==
    initAudio([s EXCEPT !.gameState = "PLAYING", !.level = 0,
                        !.startTime = t, !.flashlightTimer = 0,
                        !.flashlightOn = TRUE,
                        !.player = InitialPlayer, !.input = InitialInput])

jumpAnywhere(s) == [s EXCEPT !.player.vy = JumpForce]

jumpWhileFalling(s) ==
    IF s.player.vy <= 0
    THEN [s EXCEPT !.player.vy = JumpForce]
    ELSE s

jump(s) ==
    IF s.player.y <= GroundTolerance
    THEN [s EXCEPT !.player.vy = JumpForce]
    ELSE s

toggleFlashlight(s) == [s EXCEPT !.flashlightOn = ~s.flashlightOn]

handleKeyDown(s, key) ==
    CASE key = "w" -> [s EXCEPT !.input.fwd = 1]
      [] key = "s" -> [s EXCEPT !.input.fwd = -1]
      [] key = "a" -> [s EXCEPT !.input.side = 1]
      [] key = "d" -> [s EXCEPT !.input.side = -1]
      [] key = "Space" -> jump(s)
      [] key = "e" -> toggleFlashlight(s)
      [] OTHER -> s

handleKeyUp(s, key) ==
    CASE key \in {"w", "s"} -> [s EXCEPT !.input.fwd = 0]
      [] key \in {"a", "d"} -> [s EXCEPT !.input.side = 0]
      [] OTHER -> s

\* `!touchIdRight.current`: null and the identifier 0 are both falsy
LookTouchFalsy(s) == s.touchIdRight = Null \/ s.touchIdRight = 0

\* handleMouseMove for a pointer delta of mx quarter turns and my pitch units
handleMouseMove(s, mx, my) ==
    IF LookTouchFalsy(s)
    THEN [s EXCEPT !.input.rotY = (s.input.rotY - mx) % 4,
                   !.input.rotX = Max(-PitchLimit, Min(PitchLimit, s.input.rotX - my))]
    ELSE s

----------------------------------------------------------------------------
(* Touch handlers.  A touch is [identifier, clientX, clientY, target],     *)
(* target being the id of the element it began on.                         *)

\* window.innerWidth and window.innerHeight
Viewport == [innerWidth |-> 1256, innerHeight |-> 750]

Touch(id, x, y, target) ==
    [identifier |-> id, clientX |-> x, clientY |-> y, target |-> target]

\* the body of handleTouchStart's loop for one changed touch
touchStartOne(s, tc) ==
    LET halfScreen == Viewport.innerWidth \div 2
        bottomArea == Viewport.innerHeight - ButtonStrip
        s1 == IF /\ tc.clientX < halfScreen /\ tc.clientY < bottomArea
                 /\ s.touchIdLeft = Null
              THEN [s EXCEPT !.touchIdLeft = tc.identifier,
                             !.startX = tc.clientX, !.startY = tc.clientY]
              ELSE s
    IN  IF tc.target \in {"btn-jump", "btn-light"} THEN s
        ELSE IF /\ tc.clientX > halfScreen /\ tc.clientY < bottomArea
                /\ s1.touchIdRight = Null
             THEN [s1 EXCEPT !.touchIdRight = tc.identifier,
                             !.lastLookX = tc.clientX, !.lastLookY = tc.clientY]
             ELSE s1

RECURSIVE handleTouchStart(_, _)
handleTouchStart(s, touches) ==
    IF touches = << >> THEN s
    ELSE handleTouchStart(touchStartOne(s, Head(touches)), Tail(touches))

\* Math.sqrt(dx*dx + dy*dy) for a drag along one axis
Hypot(dx, dy) == Abs(dx) + Abs(dy)

\* -(visual / 60) for the component d of a drag of length hyp along one
\* axis: visual = cos or sin of atan2(dy, dx), times min(hyp, 60)
JoyAxis(d, hyp) ==
    IF hyp = 0 THEN 0
    ELSE -((d * Min(hyp, JoyRadius)) \div (hyp * JoyRadius))

\* the drags whose joystick axes are whole numbers: along one axis, and of
\* length 0 or at least the joystick's radius
JoyExact(dx, dy) ==
    /\ dx = 0 \/ dy = 0
    /\ Hypot(dx, dy) = 0 \/ Hypot(dx, dy) >= JoyRadius

\* the look drags that turn by whole quarter turns and whole pitch units
LookExact(dx, dy) == dx % LookQuarter = 0 /\ dy % LookPitch = 0

touchMoveOneNoPitchClamp(s, tc) ==
    LET jx == tc.clientX - s.startX
        jy == tc.clientY - s.startY
        s1 == IF tc.identifier = s.touchIdLeft
              THEN [s EXCEPT !.input.side = JoyAxis(jx, Hypot(jx, jy)),
                             !.input.fwd = JoyAxis(jy, Hypot(jx, jy))]
              ELSE s
        lx == tc.clientX - s.lastLookX
        ly == tc.clientY - s.lastLookY
    IN  IF tc.identifier = s1.touchIdRight
        THEN [s1 EXCEPT !.input.rotY = (s.input.rotY - lx \div LookQuarter) % 4,
                        !.input.rotX = s.input.rotX - ly \div LookPitch,
                        !.lastLookX = tc.clientX, !.lastLookY = tc.clientY]
        ELSE s1

\* the body of handleTouchMove's loop for one changed touch
touchMoveOne(s, tc) ==
    LET jx == tc.clientX - s.startX
        jy == tc.clientY - s.startY
        s1 == IF tc.identifier = s.touchIdLeft
              THEN [s EXCEPT !.input.side = JoyAxis(jx, Hypot(jx, jy)),
                             !.input.fwd = JoyAxis(jy, Hypot(jx, jy))]
              ELSE s
        lx == tc.clientX - s.lastLookX
        ly == tc.clientY - s.lastLookY
    IN  IF tc.identifier = s1.touchIdRight
        THEN [s1 EXCEPT !.input.rotY = (s.input.rotY - lx \div LookQuarter) % 4,
                        !.input.rotX = Max(-PitchLimit,
                                           Min(PitchLimit,
                                               s.input.rotX - ly \div LookPitch)),
                        !.lastLookX = tc.clientX, !.lastLookY = tc.clientY]
        ELSE s1

RECURSIVE handleTouchMove(_, _)
handleTouchMove(s, touches) ==
    IF touches = << >> THEN s
    ELSE handleTouchMove(touchMoveOne(s, Head(touches)), Tail(touches))

touchEndOneKeepsAxes(s, tc) ==
    LET s1 == IF tc.identifier = s.touchIdLeft
              THEN [s EXCEPT !.touchIdLeft = Null]
              ELSE s
    IN  IF tc.identifier = s1.touchIdRight
        THEN [s1 EXCEPT !.touchIdRight = Null]
        ELSE s1

\* the body of handleTouchEnd's loop for one changed touch
touchEndOne(s, tc) ==
    LET s1 == IF tc.identifier = s.touchIdLeft
              THEN [s EXCEPT !.touchIdLeft = Null,
                             !.input.fwd = 0, !.input.side = 0]
              ELSE s
    IN  IF tc.identifier = s1.touchIdRight
        THEN [s1 EXCEPT !.touchIdRight = Null]
        ELSE s1

RECURSIVE handleTouchEnd(_, _)
handleTouchEnd(s, touches) ==
    IF touches = << >> THEN s
    ELSE handleTouchEnd(touchEndOne(s, Head(touches)), Tail(touches))

----------------------------------------------------------------------------
(* Bounds of the model and the sets the environment draws from *)

MaxProbe == 2            \* probe points lie within this many units of a touching position


Sample(rx, rz, rw) == [rx |-> rx, rz |-> rz, rw |-> rw]

----------------------------------------------------------------------------
(* Actions *)

NoProbe == UNCHANGED probe

\* the ACORDAR button: handleStart, then the commit and its effects
Start(doors, layouts) ==
    /\ gameState = "MENU"
    /\ \E door \in doors, samples \in layouts :
          /\ Len(samples) <= wallCount(0)
          /\ \E flick \in LoopFlickerDraws(handleStart(St, now), now) :
                Apply(RunEffects(handleStart(St, now), now, door[1], door[2],
                                 samples, flick))
    /\ UNCHANGED now
    /\ NoProbe

\* the JOGAR NOVAMENTE / TENTAR NOVAMENTE buttons of the rendered end screens
Restart ==
    /\ gameState \in {"WON", "LOST"}
    /\ ~dirty
    /\ Apply([St EXCEPT !.gameState = "MENU"])
    /\ UNCHANGED now
    /\ NoProbe

\* one frame callback of the live loop
Tick ==
    /\ loopLive
    /\ \E id \in pendingFrames, flick \in FlickerDraws(St, now) :
          Apply(animate([St EXCEPT !.pendingFrames = @ \ {id}], now, flick))
    /\ UNCHANGED now
    /\ NoProbe

\* React commits the state set by a frame callback and runs the effects
Commit(doors, layouts) ==
    /\ dirty
    /\ \E door \in doors, samples \in layouts :
          /\ Len(samples) <= wallCount(level)
          /\ \E flick \in LoopFlickerDraws(St, now) :
                Apply(RunEffects(St, now, door[1], door[2], samples, flick))
    /\ UNCHANGED now
    /\ NoProbe

\* the key and mouse listeners exist while the PLAYING render is mounted
KeyDown(key) ==
    /\ loopLive
    /\ Apply(handleKeyDown(St, key))
    /\ UNCHANGED now
    /\ NoProbe

KeyUp(key) ==
    /\ loopLive
    /\ Apply(handleKeyUp(St, key))
    /\ UNCHANGED now
    /\ NoProbe

MouseMove(mx, my) ==
    /\ loopLive
    /\ Apply(handleMouseMove(St, mx, my))
    /\ UNCHANGED now
    /\ NoProbe

\* the PULAR and LUZ buttons of the HUD
JumpButton ==
    /\ loopLive
    /\ Apply(jump(St))
    /\ UNCHANGED now
    /\ NoProbe

LightButton ==
    /\ loopLive
    /\ Apply(toggleFlashlight(St))
    /\ UNCHANGED now
    /\ NoProbe

\* the identifiers of the touches of an event
TouchIdsOf(touches) == { touches[i].identifier : i \in 1..Len(touches) }

\* touchstart: fingers that were not on the screen come down; the document
\* listeners exist while the PLAYING render is mounted
TouchStart(touches) ==
    /\ Cardinality(TouchIdsOf(touches)) = Len(touches)
    /\ TouchIdsOf(touches) \cap activeTouches = {}
    /\ Apply([(IF loopLive THEN handleTouchStart(St, touches) ELSE St)
                 EXCEPT !.activeTouches = @ \cup TouchIdsOf(touches)])
    /\ UNCHANGED now
    /\ NoProbe

\* touchmove of one finger that is on the screen
TouchMove(tc) ==
    /\ tc.identifier \in activeTouches
    /\ tc.identifier = touchIdLeft
          => JoyExact(tc.clientX - startX, tc.clientY - startY)
    /\ tc.identifier = touchIdRight
          => LookExact(tc.clientX - lastLookX, tc.clientY - lastLookY)
    /\ Apply(IF loopLive THEN handleTouchMove(St, <<tc>>) ELSE St)
    /\ UNCHANGED now
    /\ NoProbe

\* touchend: fingers leave the screen
TouchEnd(touches) ==
    /\ Cardinality(TouchIdsOf(touches)) = Len(touches)
    /\ TouchIdsOf(touches) \subseteq activeTouches
    /\ Apply([(IF loopLive THEN handleTouchEnd(St, touches) ELSE St)
                 EXCEPT !.activeTouches = @ \ TouchIdsOf(touches)])
    /\ UNCHANGED now
    /\ NoProbe

\* a stand-alone collision query at (x, z) against a generated wall array
CollisionQuery(x, z, radius, door, samples) ==
    /\ LET ws == GenerateWalls(samples, DoorX(door[1], door[2]), DoorZ(door[1], door[2]))
       IN  probe' = [x |-> x, z |-> z, radius |-> radius, ws |-> ws,
                     hit |-> checkCollision(x, z, radius, ws)]
    /\ Apply(St)
    /\ UNCHANGED now

\* the wall clock advances to a later instant t
TimePasses(t) ==
    /\ t > now
    /\ now' = t
    /\ Apply(St)
    /\ NoProbe

Init ==
    /\ gameState = "MENU"
    /\ level = 0
    /\ flashlightOn = TRUE
    /\ isGameEnded = FALSE
    /\ startTime = 0
    /\ flashlightTimer = 0
    /\ sanityGain = 0
    /\ audioCtx = FALSE
    /\ player = InitialPlayer
    /\ input = InitialInput
    /\ touchIdLeft = Null
    /\ touchIdRight = Null
    /\ walls = << >>
    /\ doorX = 0
    /\ doorZ = 0
    /\ loopLevel = 0
    /\ clockOld = 0
    /\ loopLive = FALSE
    /\ pendingFrames = {}
    /\ frameId = 0
    /\ surfaces = 0
    /\ lightIntensity = 0
    /\ startX = 0
    /\ startY = 0
    /\ lastLookX = 0
    /\ lastLookY = 0
    /\ activeTouches = {}
    /\ dirty = FALSE
    /\ now = 0
    /\ probe = [x |-> 0, z |-> 0, radius |-> PlayerRadius, ws |-> << >>, hit |-> FALSE]

----------------------------------------------------------------------------
(* Session specification.  The player can walk the straight line to the    *)
(* door ("s" walks towards +z, where the door stands).  The wall clock is  *)
(* read at three instants, chosen so that the flashlight timer can reach   *)
(* its threshold but pass it only when the countdown has run out; the      *)
(* sanity ramp has its own specification.                                  *)

SessionLayouts == { << >> }
SessionDoors == { <<0, DoorDist(0)>> }
SessionInstants == {0, SanityThreshold, TimeBudget + SanityThreshold}
SessionKeys == {"s", "Space", "e"}

Next ==
    \/ Start(SessionDoors, SessionLayouts)
    \/ Restart
    \/ Tick
    \/ Commit(SessionDoors, SessionLayouts)
    \/ \E key \in SessionKeys : KeyDown(key)
    \/ JumpButton
    \/ LightButton
    \/ \E t \in SessionInstants : TimePasses(t)

Spec == Init /\ [][Next]_vars

----------------------------------------------------------------------------
(* Session state machine *)

AnimateRuns == Tick \/ Commit(SessionDoors, SessionLayouts)

SessionEdges ==
    { <<"MENU", "PLAYING">>, <<"PLAYING", "WON">>, <<"PLAYING", "LOST">>,
      <<"WON", "MENU">>, <<"LOST", "MENU">> }

\* C1: the session state changes only along MENU->PLAYING (the start
\* action), PLAYING->WON and PLAYING->LOST (made only by a run of the frame
\* callback) and WON->MENU, LOST->MENU (the restart action); a frame tick
\* never changes the state away from MENU, WON or LOST, and no handler of a
\* UI event moves PLAYING to WON or LOST.
ClaimC1 ==
    [][ /\ gameState' # gameState => <<gameState, gameState'>> \in SessionEdges
        /\ (gameState = "MENU" /\ gameState' = "PLAYING")
              => Start(SessionDoors, SessionLayouts)
        /\ (gameState = "PLAYING" /\ gameState' \in {"WON", "LOST"}) => AnimateRuns
        /\ (gameState \in {"WON", "LOST"} /\ gameState' = "MENU") => Restart
        /\ (Tick /\ gameState # "PLAYING") => gameState' = gameState
      ]_vars

\* a session that advanced a level, ended, and was sent back to the menu
WitnessC1 == gameState = "MENU" /\ level = 1 /\ audioCtx /\ ~loopLive

\* C2: a tick in PLAYING whose loop is at level 0, with time remaining and
\* the player less than 1.5 from the door, ends with level 1, the player at
\* x = 0, z = 0, the countdown at its full budget, flashlightTimer 0 and the
\* session still PLAYING.
ClaimC2 ==
    [][ (Tick /\ gameState = "PLAYING" /\ loopLevel = 0
              /\ ~TimeExpired(St, now) /\ NearDoor(St))
          => /\ level' = 1
             /\ player'.x = 0 /\ player'.z = 0
             /\ Remaining(St', now') = TimeBudget
             /\ flashlightTimer' = 0
             /\ gameState' = "PLAYING"
      ]_vars

\* the state a level advance leaves, reached after the countdown had run down
WitnessC2 ==
    /\ gameState = "PLAYING" /\ level = 1 /\ loopLevel = 0 /\ dirty
    /\ player.x = 0 /\ player.z = 0 /\ startTime = now /\ now > 0

\* C3: the session becomes WON exactly by a run of the frame callback at
\* level 1 with time remaining and the player less than 1.5 from that
\* level's door; it is never WON while level = 0.
ClaimC3 ==
    /\ [](gameState = "WON" => level = 1 /\ loopLevel = 1)
    /\ [][ /\ (gameState # "WON" /\ gameState' = "WON")
                => /\ AnimateRuns
                   /\ level' = 1 /\ loopLevel' = 1
                   /\ NearDoor(St') /\ ~TimeExpired(St', now')
           /\ (Tick /\ gameState = "PLAYING" /\ loopLevel = 1
                    /\ ~TimeExpired(St, now) /\ NearDoor(St))
                => gameState' = "WON"
         ]_vars

WitnessC3 == gameState = "WON" /\ isGameEnded /\ NearDoor(St) /\ loopLevel = 1

\* C4: when the session is PLAYING and at least 300 s have elapsed since the
\* timer was last reset, the next tick sets the session to LOST and sets the
\* terminal flag, and leaves the player as it was (no gravity, no movement).
ClaimC4 ==
    [][ (Tick /\ gameState = "PLAYING" /\ now - startTime >= TimeBudget)
          => /\ gameState' = "LOST"
             /\ isGameEnded'
             /\ player' = player
      ]_vars

\* lost in mid-air with the walk key held
WitnessC4 ==
    /\ gameState = "LOST" /\ isGameEnded /\ now - startTime >= TimeBudget
    /\ player.y > 0 /\ input.fwd # 0

\* C5: once the session is WON or LOST, a tick of the loop that is still
\* registered changes none of the player's x, z, y, vy, flashlightTimer,
\* the sanity gain, level and the countdown's start time.
ClaimC5 ==
    [][ (Tick /\ gameState \in {"WON", "LOST"})
          => UNCHANGED <<player, flashlightTimer, sanityGain, level, startTime>>
      ]_vars

\* an ended session whose loop is still registered, in mid-air, walk key
\* held, flashlight on and the clock ahead of the loop's last frame
WitnessC5 ==
    /\ gameState \in {"WON", "LOST"} /\ loopLive /\ dirty
    /\ player.vy # 0 /\ input.fwd # 0 /\ flashlightOn /\ now > clockOld

----------------------------------------------------------------------------
(* Collision specification: checkCollision applied to drawn points, against *)
(* a generated level with one inner wall.                                   *)

ProbeDoor == <<0, DoorDist(0)>>
ProbeLayouts == { << Sample(1000, 0, WallShort) >>, << Sample(0, -1000, WallLong) >> }
ProbeRadii == {1, PlayerRadius}

\* coordinates at, and within MaxProbe of, the two positions where a span of
\* half-width r touches the interval [lo, hi], and the interval's middle
ProbeCoords(lo, hi, r) ==
    {lo - r + d : d \in -MaxProbe..MaxProbe}
      \cup {hi + r + d : d \in -MaxProbe..MaxProbe}
      \cup {(lo + hi) \div 2}

NextCollision ==
    \E samples \in ProbeLayouts, r \in ProbeRadii :
        LET w == InnerWalls(samples, DoorX(ProbeDoor[1], ProbeDoor[2]),
                            DoorZ(ProbeDoor[1], ProbeDoor[2]))[1]
        IN  \E x \in ProbeCoords(w.minX, w.maxX, r),
               z \in ProbeCoords(w.minZ, w.maxZ, r) :
                CollisionQuery(x, z, r, ProbeDoor, samples)

SpecCollision == Init /\ [][NextCollision]_vars

\* the original statement of C6: the query is true iff the radius-expanded
\* bounds meet some wall with inclusive comparisons, so that a circle whose
\* expanded bound exactly touches a wall edge counts as colliding.
CounterC6 ==
    probe.hit <=>
        \E i \in 1..Len(probe.ws) :
            /\ probe.x + probe.radius >= probe.ws[i].minX
            /\ probe.x - probe.radius <= probe.ws[i].maxX
            /\ probe.z + probe.radius >= probe.ws[i].minZ
            /\ probe.z - probe.radius <= probe.ws[i].maxZ

\* C6 (amended): the query is true iff the square of half-width r around
\* (x, z) and some wall rectangle overlap in an area: on each axis the
\* larger of the two lower ends lies strictly below the smaller of the two
\* upper ends.  A square that only touches a wall edge does not collide.
ClaimC6 ==
    probe.hit <=>
        \E i \in 1..Len(probe.ws) :
            /\ Max(probe.x - probe.radius, probe.ws[i].minX)
                 < Min(probe.x + probe.radius, probe.ws[i].maxX)
            /\ Max(probe.z - probe.radius, probe.ws[i].minZ)
                 < Min(probe.z + probe.radius, probe.ws[i].maxZ)

\* a query whose expanded bound exactly touches the inner wall's low-x edge,
\* level with the wall in z, and which the code answers with false
WitnessC6 ==
    /\ Len(probe.ws) = 5
    /\ probe.x + probe.radius = probe.ws[5].minX
    /\ probe.z > probe.ws[5].minZ /\ probe.z < probe.ws[5].maxZ
    /\ ~probe.hit

----------------------------------------------------------------------------
(* Movement specification: the spawn is enclosed by twelve inner walls (a  *)
(* layout the generator can draw), so the walk stays within 3.1 units; a   *)
(* thirteenth wall reaches into the cell and gives it two outer corners.   *)

LeakyCell ==
    << Sample(-800, 800, WallLong), Sample(800, 800, WallLong),
       Sample(-800, -800, WallLong), Sample(0, -800, WallLong), Sample(800, -800, WallLong),
       Sample(804, -800, WallShort), Sample(804, 0, WallShort), Sample(804, 800, WallShort),
       Sample(-804, -800, WallShort), Sample(-804, 0, WallShort), Sample(-804, 800, WallShort),
       Sample(800, 0, WallLong) >>

SealedCell ==
    << Sample(-800, 800, WallLong), Sample(0, 800, WallLong), Sample(800, 800, WallLong),
       Sample(-800, -800, WallLong), Sample(0, -800, WallLong), Sample(800, -800, WallLong),
       Sample(804, -800, WallShort), Sample(804, 0, WallShort), Sample(804, 800, WallShort),
       Sample(-804, -800, WallShort), Sample(-804, 0, WallShort), Sample(-804, 800, WallShort),
       Sample(800, 0, WallLong) >>

MoveLayouts == { SealedCell }
MoveDoors == { <<0, DoorDist(0)>> }
MoveKeys == {"w", "a", "s", "d"}

NextMove ==
    \/ Start(MoveDoors, MoveLayouts)
    \/ Tick
    \/ \E key \in MoveKeys : KeyDown(key)
    \/ \E key \in MoveKeys : KeyUp(key)
    \/ MouseMove(1, 0)

SpecMove == Init /\ [][NextMove]_vars

\* the tick gets as far as gravity and movement
PhysicsRuns ==
    gameState = "PLAYING" /\ ~isGameEnded /\ ~TimeExpired(St, now) /\ ~NearDoor(St)

BlockedX == checkCollision(player.x - DeltaX(player, input), player.z, player.radius, walls)
BlockedZAlone == checkCollision(player.x, player.z - DeltaZ(player, input), player.radius, walls)
BlockedZAfterX ==
    checkCollision(player.x - DeltaX(player, input), player.z - DeltaZ(player, input),
                   player.radius, walls)

\* C7: in a movement tick with dx and dz both non-zero, if (x - dx, z)
\* collides and (x, z - dz) does not, x is unchanged and z changes by -dz;
\* if (x - dx, z) does not collide and (x - dx, z - dz) does, x changes by
\* -dx and z is unchanged.
ClaimC7 ==
    [][ (Tick /\ PhysicsRuns /\ DeltaX(player, input) # 0 /\ DeltaZ(player, input) # 0)
          => /\ (BlockedX /\ ~BlockedZAlone)
                  => /\ player'.x = player.x
                     /\ player'.z = player.z - DeltaZ(player, input)
             /\ (~BlockedX /\ BlockedZAfterX)
                  => /\ player'.x = player.x - DeltaX(player, input)
                     /\ player'.z = player.z
      ]_vars

\* a diagonal walk past an outer corner: x is free, and z is free from the
\* old x but blocked from the new one
WitnessC7 ==
    /\ loopLive /\ PhysicsRuns
    /\ DeltaX(player, input) # 0 /\ DeltaZ(player, input) # 0
    /\ ~BlockedX /\ BlockedZAfterX /\ ~BlockedZAlone

----------------------------------------------------------------------------
(* Sanity specification: the player stands still; the clock is read at     *)
(* instants on both sides of the 15 s threshold and past the countdown.    *)

SanityInstants == {10, 16, 40, 340}

NextSanity ==
    \/ Start(SessionDoors, SessionLayouts)
    \/ Restart
    \/ Tick
    \/ Commit(SessionDoors, SessionLayouts)
    \/ LightButton
    \/ \E t \in SanityInstants : TimePasses(t)

SpecSanity == Init /\ [][NextSanity]_vars

\* C8: the sanity gain stays within [0, 0.2]; a tick with the flashlight on
\* and flashlightTimer > 15 never lowers it (it adds 0.001, capped at 0.2),
\* and a tick with the flashlight off never raises it (it subtracts 0.01,
\* floored at 0).
ClaimC8 ==
    /\ [](sanityGain >= 0 /\ sanityGain <= GainCeiling)
    /\ [][ /\ (Tick /\ flashlightOn /\ flashlightTimer > SanityThreshold)
                => /\ sanityGain' >= sanityGain
                   /\ ~isGameEnded => sanityGain' = Min(GainCeiling, sanityGain + GainUp)
           /\ (Tick /\ ~flashlightOn)
                => /\ sanityGain' <= sanityGain
                   /\ ~isGameEnded => sanityGain' = Max(0, sanityGain - GainDown)
         ]_vars

\* the gain at its ceiling in a running loop with the flashlight still on
WitnessC8 ==
    /\ sanityGain = GainCeiling /\ flashlightOn /\ flashlightTimer > SanityThreshold
    /\ loopLive /\ ~isGameEnded

----------------------------------------------------------------------------
(* Jump and gravity, under the session specification *)

JumpAction == JumpButton \/ KeyDown("Space")

\* C9: the jump action sets vy to the impulse 0.15 when the player's y is
\* at most 0.01 and changes nothing else of the player; when y > 0.01 it
\* leaves every player field unchanged.
ClaimC9 ==
    [][ JumpAction
          => IF player.y <= GroundTolerance
             THEN player' = [player EXCEPT !.vy = JumpForce]
             ELSE player' = player
      ]_vars

\* airborne and still rising in a live loop: a jump pressed here must not
\* restore the impulse
WitnessC9 ==
    /\ loopLive /\ player.y > GroundTolerance
    /\ player.vy > 0 /\ player.vy < JumpForce

----------------------------------------------------------------------------
(* Generation specification: levels are generated for doors at the four    *)
(* quarter-turn angles and the least, middle and greatest drawn distance,  *)
(* and for sample sequences                                                *)
(* at and around the edges of the two safe zones and of full length.  The  *)
(* player can walk to a door that stands at angle 0, so that level 1 is    *)
(* generated as well.                                                      *)

\* samples at the centre and on both sides of the edge of the spawn zone
AroundSpawn ==
    << Sample(0, 0, WallLong), Sample(SafeZone - 1, 1 - SafeZone, WallShort),
       Sample(SafeZone, 0, WallLong), Sample(0, -SafeZone, WallShort),
       Sample(1 - SafeZone, SafeZone, WallLong) >>

\* samples on the nearest door, and at and inside the edge of the zone of a
\* door that stands 15 from the origin
AroundDoor ==
    << Sample(0, DoorDistMin, WallLong), Sample(DoorDistMin, 0, WallShort),
       Sample(0, -DoorDistMin, WallShort), Sample(-DoorDistMin, 0, WallLong),
       Sample(SafeZone, DoorDistMin, WallShort),
       Sample(DoorDistMin - SafeZone + 1, SafeZone - 1, WallLong),
       Sample(-SafeZone, -DoorDistMin, WallLong) >>

\* n samples in a row south of the spawn, none of them in a safe zone
SampleRow(n) ==
    [i \in 1..n |-> Sample(200 * i - 100 * (n + 1), -2000,
                           IF i % 2 = 0 THEN WallLong ELSE WallShort)]

GenLayouts ==
    { << >>, AroundSpawn, AroundDoor, SampleRow(WallCount0), SampleRow(WallCount1) }
GenDraws == {0, RandomSteps \div 2, RandomSteps - 1}
GenDoors == { <<angle, DoorDist(r)>> : angle \in 0..3, r \in GenDraws }

NextGen ==
    \/ Start(GenDoors, GenLayouts)
    \/ Tick
    \/ Commit(GenDoors, GenLayouts)
    \/ KeyDown("s")

SpecGen == Init /\ [][NextGen]_vars

\* centre of a wall rectangle
CentreX(w) == (w.minX + w.maxX) \div 2
CentreZ(w) == (w.minZ + w.maxZ) \div 2

\* squared distance
Dist2(x1, z1, x2, z2) == (x1 - x2) * (x1 - x2) + (z1 - z2) * (z1 - z2)

\* C11: for every generated level (level 0 or 1, any door, any samples) the
\* collision query at the spawn (0, 0) with the player radius 0.4 is false
\* against the whole generated wall array.
ClaimC11 ==
    loopLive => ~checkCollision(0, 0, PlayerRadius, walls)

\* a generated level with an inner wall as close to the spawn as the
\* generator lets one be: a 4 x 1 wall centred 4 to the east
WitnessC11 ==
    /\ loopLive
    /\ \E i \in 5..Len(walls) :
          /\ walls[i].minX = SafeZone - WallLong \div 2
          /\ walls[i].minZ < 0 /\ walls[i].maxZ > 0

\* C17: a generated level has exactly the 4 boundary walls and after them
\* at most N inner walls (N = 25 at level 0, 35 at level 1); every inner
\* wall is 4 x 1 or 1 x 4, and none has its centre within 4 units of the
\* map centre or within 4 units of the door.
ClaimC17 ==
    loopLive =>
        /\ Len(walls) >= 4
        /\ walls[1] = [minX |-> -5100, maxX |-> 5100, minZ |-> -5100, maxZ |-> -4900]
        /\ walls[2] = [minX |-> -5100, maxX |-> 5100, minZ |-> 4900, maxZ |-> 5100]
        /\ walls[3] = [minX |-> -5100, maxX |-> -4900, minZ |-> -5100, maxZ |-> 5100]
        /\ walls[4] = [minX |-> 4900, maxX |-> 5100, minZ |-> -5100, maxZ |-> 5100]
        /\ Len(walls) - 4 <= (IF loopLevel = 0 THEN 25 ELSE 35)
        /\ \A i \in 5..Len(walls) :
              /\ <<walls[i].maxX - walls[i].minX, walls[i].maxZ - walls[i].minZ>>
                    \in { <<800, 200>>, <<200, 800>> }
              /\ Dist2(CentreX(walls[i]), CentreZ(walls[i]), 0, 0) >= 800 * 800
              /\ Dist2(CentreX(walls[i]), CentreZ(walls[i]), doorX, doorZ) >= 800 * 800

\* a level 1 with all its 35 candidates accepted
WitnessC17 == loopLive /\ loopLevel = 1 /\ Len(walls) = 4 + WallCount1

----------------------------------------------------------------------------
(* Start and the frame loop's life, under the session specification *)

\* C13: the start action from MENU always produces PLAYING with level 0,
\* the countdown at its full 300 s, flashlightTimer 0, the player at x = 0,
\* z = 0, y = 0, vy = 0 and the input vector zeroed, whatever level, player
\* pose and input a previous WON or LOST session left.
ClaimC13 ==
    [][ Start(SessionDoors, SessionLayouts)
          => /\ gameState' = "PLAYING"
             /\ level' = 0
             /\ Max(0, 300 - (now' - startTime')) = 300
             /\ flashlightTimer' = 0
             /\ player'.x = 0 /\ player'.z = 0 /\ player'.y = 0 /\ player'.vy = 0
             /\ input' = [fwd |-> 0, side |-> 0, rotX |-> 0, rotY |-> 0]
      ]_vars

\* the menu after a session lost at level 1, in mid-air, with the walk key
\* held and the flashlight timer run up: the start action acts on this
WitnessC13 ==
    /\ gameState = "MENU" /\ level = 1 /\ audioCtx
    /\ player.z # 0 /\ player.y > 0 /\ player.vy # 0
    /\ input.fwd # 0 /\ flashlightTimer > 0 /\ now - startTime >= TimeBudget

\* C14: at most one frame loop is live at any time.  There is never more
\* than one pending frame callback and never more than one render surface;
\* a pending callback is the one frameIdRef names, so that the cleanup of a
\* commit cancels it before the next loop is created.
ClaimC14 ==
    /\ Cardinality(pendingFrames) <= 1
    /\ surfaces <= 1
    /\ pendingFrames # {} => pendingFrames = {frameId} /\ surfaces = 1
    /\ loopLive <=> pendingFrames # {}

\* the loop of level 1, created by the commit of a level advance
WitnessC14 ==
    /\ gameState = "PLAYING" /\ loopLevel = 1 /\ ~dirty
    /\ Cardinality(pendingFrames) = 1 /\ surfaces = 1

----------------------------------------------------------------------------
(* Countdown specification: the player stands still and the clock is read  *)
(* at instants less than 300 s apart, so that frames come both before and  *)
(* after the countdown runs out, in any number.                            *)

ClockInstants == {100, 250, 300, 350}

NextClock ==
    \/ Start(SessionDoors, SessionLayouts)
    \/ Restart
    \/ Tick
    \/ Commit(SessionDoors, SessionLayouts)
    \/ \E t \in ClockInstants : TimePasses(t)

SpecClock == Init /\ [][NextClock]_vars

\* C19: the countdown is driven by wall-clock time, not by the number of
\* ticks.  The remaining time max(0, 300 - (now - timerStart)) always lies
\* in [0, 300], and a tick of a running session makes it LOST exactly when
\* 300 - (now - timerStart) <= 0, however many ticks came before and
\* whenever the last one was; a session becomes LOST in no other way.
ClaimC19 ==
    /\ [](Max(0, 300 - (now - startTime)) \in 0..300)
    /\ [][ /\ (Tick /\ gameState = "PLAYING" /\ ~isGameEnded)
                => (gameState' = "LOST" <=> 300 - (now - startTime) <= 0)
           /\ (gameState # "LOST" /\ gameState' = "LOST")
                => 300 - (now - startTime) <= 0 /\ UNCHANGED <<now, startTime>>
         ]_vars

\* lost by the first tick at 300 s, after several earlier ticks of the
\* same session (each tick past 15 s of flashlight adds 0.001 of gain)
WitnessC19 ==
    /\ gameState = "LOST" /\ now - startTime = TimeBudget /\ clockOld = now
    /\ sanityGain >= 3

----------------------------------------------------------------------------
(* Flashlight specification: the player can walk the straight line to the  *)
(* door and can switch the flashlight; the clock is read once past the     *)
(* threshold, before or after the level advance.                           *)

LightInstants == {SanityThreshold + 1}

NextLight ==
    \/ Start(SessionDoors, SessionLayouts)
    \/ Tick
    \/ Commit(SessionDoors, SessionLayouts)
    \/ KeyDown("s")
    \/ LightButton
    \/ \E t \in LightInstants : TimePasses(t)

SpecLight == Init /\ [][NextLight]_vars

\* a tick that gets past the isGameEnded test and runs the flashlight logic
LogicTick == Tick /\ ~isGameEnded

\* the tick of a level-0 loop that takes the door branch
LevelAdvance ==
    LogicTick /\ loopLevel = 0 /\ ~TimeExpired(St, now) /\ NearDoor(St)

\* the original statement of C12: immediately after the level-0 door
\* advance, and immediately after a start action, both flashlightTimer and
\* the sanity gain equal 0.
CounterC12 ==
    [][ (LevelAdvance \/ Start(SessionDoors, SessionLayouts))
          => flashlightTimer' = 0 /\ sanityGain' = 0
      ]_vars

\* the original statement of C20: after any logic tick the intensity is 0
\* if the flashlight is off, the level's base value if it is on with
\* flashlightTimer <= 15, and the base value or exactly half of it if it is
\* on with flashlightTimer > 15.
CounterC20 ==
    [][ LogicTick
          => LET base == IF loopLevel = 0 THEN 8 ELSE 10
             IN  /\ ~flashlightOn' => lightIntensity' = 0
                 /\ (flashlightOn' /\ flashlightTimer' <= 15) => lightIntensity' = base
                 /\ (flashlightOn' /\ flashlightTimer' > 15)
                      => lightIntensity' \in {base, base \div 2}
      ]_vars

\* C20 (amended): after any logic tick the intensity is 0 if the flashlight
\* is off; if it is on, with the timer as this tick advanced it (the old
\* value plus dt), it is the base value of the loop's level (0.8 at level 0,
\* 1.0 at level 1) when that timer is <= 15, and the base value or exactly
\* half of it when that timer is > 15, whatever the intensity was before.
\* flashlightTimer ends the tick with the advanced value, except in the
\* level-advance tick, which resets it to 0 after the intensity is set.
ClaimC20 ==
    [][ LogicTick
          => LET base == IF loopLevel = 0 THEN 8 ELSE 10
                 advanced == flashlightTimer + (now - clockOld)
             IN  /\ flashlightOn' = flashlightOn
                 /\ ~flashlightOn => lightIntensity' = 0
                 /\ (flashlightOn /\ advanced <= 15) => lightIntensity' = base
                 /\ (flashlightOn /\ advanced > 15)
                      => lightIntensity' \in {base, base \div 2}
                 /\ flashlightOn
                      => flashlightTimer' = (IF LevelAdvance THEN 0 ELSE advanced)
      ]_vars

\* the end of a level-advance tick that flickered: the timer is back at 0
\* and the intensity is half the base value of level 0
WitnessC20 ==
    /\ loopLive /\ loopLevel = 0 /\ level = 1 /\ dirty
    /\ flashlightOn /\ flashlightTimer = 0 /\ lightIntensity = LightBase0 \div 2

----------------------------------------------------------------------------
(* Cooldown specification: the player can walk the straight line to the    *)
(* door and can switch the flashlight; the clock is read at instants below *)
(* the 15 s threshold, so that the sanity gain stays silent, and 2 s and   *)
(* 4 s apart, so that a timer built up over 4 s is cooled both to exactly  *)
(* 0 and to a positive rest.                                               *)

CooldownInstants == {4, 6, 8}

NextCooldown ==
    \/ Start(SessionDoors, SessionLayouts)
    \/ Tick
    \/ Commit(SessionDoors, SessionLayouts)
    \/ KeyDown("s")
    \/ LightButton
    \/ \E t \in CooldownInstants : TimePasses(t)

SpecCooldown == Init /\ [][NextCooldown]_vars

\* the original statement of C21: flashlightTimer is never negative; a logic
\* tick with the flashlight on increases it by exactly dt, and a logic tick
\* with the flashlight off decreases it by 2*dt floored at 0, so that a
\* timer built up over t seconds on is back at 0 after t/2 seconds off.
CounterC21 ==
    /\ [](flashlightTimer >= 0)
    /\ [][ LogicTick
              => LET dt == now - clockOld
                 IN  /\ flashlightOn => flashlightTimer' = flashlightTimer + dt
                     /\ ~flashlightOn
                          => flashlightTimer' = Max(0, flashlightTimer - 2 * dt)
         ]_vars

\* C21 (amended): flashlightTimer is never negative.  A logic tick that
\* does not take the level-0 door branch increases it by exactly dt with
\* the flashlight on and decreases it by 2*dt floored at 0 with the
\* flashlight off, so that a timer built up over t seconds on is back at 0
\* once the ticks with the flashlight off cover t/2 seconds.  The tick that
\* takes the level-0 door branch (level advance) ends with the timer at 0,
\* whatever the flashlight and dt are.
ClaimC21 ==
    /\ [](flashlightTimer >= 0)
    /\ [][ LogicTick
              => LET dt == now - clockOld
                 IN  /\ LevelAdvance => flashlightTimer' = 0
                     /\ (~LevelAdvance /\ flashlightOn)
                          => flashlightTimer' = flashlightTimer + dt
                     /\ (~LevelAdvance /\ ~flashlightOn)
                          => /\ flashlightTimer' = Max(0, flashlightTimer - 2 * dt)
                             /\ 2 * dt >= flashlightTimer => flashlightTimer' = 0
         ]_vars

\* 6 s of flashlight cooled for 2 s: the timer is at 4 - 2*2 = 0 or at
\* 6 - 2*2 = 2; here the positive rest, with the flashlight still off
WitnessC21 ==
    /\ loopLive /\ ~isGameEnded /\ ~flashlightOn
    /\ flashlightTimer = 2 /\ now = 8 /\ clockOld = 8

----------------------------------------------------------------------------
(* Input specification: keyboard, mouse and two fingers in a started       *)
(* session.  The frame callback is left out: it never writes the input     *)
(* vector.  Touches land left and right of the middle of the screen, above *)
(* and inside the button strip, and on a button; identifier 0 is the one   *)
(* browsers give the first finger.                                         *)

TouchIds == {0, 1}
TouchXs == {100, 200, 728, 728 + LookQuarter}
TouchYs == {100, 400, 700}
TouchDraws ==
    { Touch(id, x, y, "") : id \in TouchIds, x \in TouchXs, y \in TouchYs }
      \cup { Touch(id, 600, 700, "btn-jump") : id \in TouchIds }

\* events of one changed touch, and of two fingers at once
TouchEvents ==
    { <<tc>> : tc \in TouchDraws }
      \cup { <<Touch(0, 100, 100, ""), Touch(1, 728, 400, "")>>,
             <<Touch(1, 728, 100, ""), Touch(0, 200, 400, "")>> }

InputKeys == {"w", "a"}
MouseDeltas == { <<1, 0>>, <<0, 1>>, <<0, -1>> }

AnyMouseMove == \E d \in MouseDeltas : MouseMove(d[1], d[2])

NextInput ==
    \/ Start(SessionDoors, SessionLayouts)
    \/ \E key \in InputKeys : KeyDown(key)
    \/ \E key \in InputKeys : KeyUp(key)
    \/ AnyMouseMove
    \/ \E touches \in TouchEvents : TouchStart(touches)
    \/ \E tc \in TouchDraws : TouchMove(tc)
    \/ \E touches \in TouchEvents : TouchEnd(touches)

SpecInput == Init /\ [][NextInput]_vars

\* the original statement of C15: while a look touch is tracked (a
\* right-half touch was acquired and has not ended), a mouse-move event
\* leaves yaw and pitch unchanged, for every touch identifier, 0 included.
CounterC15 ==
    [][ (AnyMouseMove /\ touchIdRight # Null)
          => input'.rotY = input.rotY /\ input'.rotX = input.rotX
      ]_vars

\* C16: in every reachable state pitch (rotX) is within [-1.5, 1.5] and the
\* forward and side axes are within [-1, 1], after any interleaving of
\* keyboard, mouse, joystick-touch and look-touch events.
ClaimC16 ==
    /\ input.rotX >= -3 /\ input.rotX <= 3
    /\ input.fwd >= -1 /\ input.fwd <= 1
    /\ input.side >= -1 /\ input.side <= 1

\* both fingers down: the joystick dragged further than its radius, down
\* and then across, and the look touch dragged 300 px down with the pitch
\* already lowered by the mouse
WitnessC16 ==
    /\ touchIdLeft # Null /\ touchIdRight # Null
    /\ input.side = -1 /\ input.fwd = 0
    /\ input.rotX = -PitchLimit /\ lastLookY = 400 /\ input.rotY = 1

\* within one session a slot names a finger that is on the screen, so the
\* touch whose identifier a slot holds is the touch that was acquired for it
SlotsTracked ==
    /\ touchIdLeft # Null => touchIdLeft \in activeTouches
    /\ touchIdRight # Null => touchIdRight \in activeTouches
    /\ touchIdLeft # Null => touchIdLeft # touchIdRight

\* a step in which fingers leave the screen: only TouchEnd makes one, and
\* the touches of its event are activeTouches \ activeTouches'
AnyTouchEnd ==
    activeTouches' # activeTouches /\ activeTouches' \subseteq activeTouches

\* C22: when the touch that was acquired as the joystick ends, the joystick
\* slot is released and forward and side are both 0 after that same event;
\* when the touch acquired as look ends, the look slot is released; the end
\* of any other touch changes neither slot nor the input vector.  (Touch
\* ends of a running session, whose listeners are attached.)
ClaimC22 ==
    /\ []SlotsTracked
    /\ [][ (AnyTouchEnd /\ loopLive)
                => LET ids == activeTouches \ activeTouches'
                   IN  /\ touchIdLeft \in ids
                            => /\ touchIdLeft' = Null
                               /\ input'.fwd = 0 /\ input'.side = 0
                       /\ touchIdRight \in ids => touchIdRight' = Null
                       /\ touchIdLeft \notin ids
                            => /\ touchIdLeft' = touchIdLeft
                               /\ input'.fwd = input.fwd /\ input'.side = input.side
                       /\ touchIdRight \notin ids => touchIdRight' = touchIdRight
                       /\ input'.rotX = input.rotX /\ input'.rotY = input.rotY
         ]_vars

\* the joystick finger 1 dragged to the side with the "w" key held, the
\* look finger 0 down as well: the end of either finger, or of both, acts
\* on this
WitnessC22 ==
    /\ loopLive /\ touchIdLeft = 1 /\ touchIdRight = 0
    /\ input.side = 1 /\ input.fwd = 1 /\ activeTouches = {0, 1}

----------------------------------------------------------------------------
(* Connectivity, under the movement specification *)

\* the level the generator builds from the samples of SealedCell
CellWalls ==
    GenerateWalls(SealedCell, DoorX(0, DoorDist(0)), DoorZ(0, DoorDist(0)))

\* the largest change of x or of z in one tick: 0.12 * (|sin| + |cos|) is at
\* most 0.12 * sqrt(2) = 0.1697, for axes within [-1, 1]
MaxStep == 34

\* positions with max(|x|, |z|) < CellInner are the inside of the cell: the
\* east and west walls' inner faces are at |x| = 8.04 - 0.5, and a centre
\* collides from one step of 0.005 beyond a radius short of them
CellInner == 804 - WallShort \div 2 - PlayerRadius + 1

\* the square band of positions around the inside, MaxStep + 1 wide
CellBand ==
    { <<x, z>> \in (-(CellInner + MaxStep)..(CellInner + MaxStep))
                      \X (-(CellInner + MaxStep)..(CellInner + MaxStep)) :
          Max(Abs(x), Abs(z)) >= CellInner }

\* every position of the band collides: a move along one axis by at most
\* MaxStep that starts inside ends inside or in the band, where it is refused
CellClosed ==
    \A pos \in CellBand : checkCollision(pos[1], pos[2], PlayerRadius, CellWalls)

\* C23: level generation does not guarantee connectivity.  SealedCell is a
\* layout the generator can produce (13 samples, none in a safe zone, all
\* within the drawn range); in the level built from it the spawn is free,
\* the inside of the cell is closed off by a band of colliding positions
\* wider than any step, every position inside is further than 1.5 from the
\* door, and the player, whatever is pressed and however the view is
\* turned, stays inside and never gets within 1.5 of the door: the session
\* stays at level 0 and is never WON.
ClaimC23 ==
    loopLive =>
        /\ walls = CellWalls
        /\ Len(InnerWalls(SealedCell, doorX, doorZ)) = Len(SealedCell)
        /\ Len(SealedCell) <= wallCount(0)
        /\ \A i \in 1..Len(SealedCell) :
              Abs(SealedCell[i].rx) <= 4000 /\ Abs(SealedCell[i].rz) <= 4000
        /\ ~checkCollision(0, 0, PlayerRadius, walls)
        /\ CellClosed
        /\ Dist2(doorX, doorZ, 0, 0) >= (CellInner + DoorReach) * (CellInner + DoorReach) * 2
        /\ Max(Abs(player.x), Abs(player.z)) < CellInner
        /\ ~NearDoor(St)
        /\ level = 0 /\ gameState = "PLAYING"

\* the player pressed into the south-east corner of the cell, against the
\* east wall's face, with the walk keys still held
WitnessC23 ==
    /\ loopLive /\ player.x = 624 /\ player.z = -600
    /\ input.fwd # 0 /\ input.side # 0

----------------------------------------------------------------------------
(* Arena specification: both levels have one inner wall south-west of the  *)
(* spawn and the door 15 units to the south.  The player walks south ("w") *)
(* and west ("a"), alone or together, into the inner wall's corner, to the *)
(* door, and on to the south and west boundary walls and their corner.     *)
(* React commits the level advance before the next frame callback runs.    *)

ArenaLayouts == { << Sample(-1000, -1500, WallLong) >> }
ArenaDoors == { <<2, DoorDist(0)>> }

\* a frame callback that runs with no commit owed
PromptTick == ~dirty /\ Tick

NextArena ==
    \/ Start(ArenaDoors, ArenaLayouts)
    \/ PromptTick
    \/ Commit(ArenaDoors, ArenaLayouts)
    \/ KeyDown("w")
    \/ KeyDown("a")
    \/ KeyUp("w")

SpecArena == Init /\ [][NextArena]_vars

\* the positions a centre can have between the boundary walls: their inner
\* faces are at 24.5, the radius is 0.4
ArenaReach == ArenaHalf - BoundaryThickness \div 2 - PlayerRadius

----------------------------------------------------------------------------
(* Expiry at the door, under the session specification *)

\* C25: timer expiry takes priority over the door.  A tick of a running
\* session in which the countdown has reached 0 and the player is within
\* 1.5 of the door makes the session LOST: it is not WON and the level is
\* not advanced in that tick, and the player is not moved to the spawn.
ClaimC25 ==
    [][ (Tick /\ gameState = "PLAYING" /\ ~isGameEnded
              /\ 300 - (now - startTime) <= 0 /\ NearDoor(St))
          => /\ gameState' = "LOST"
             /\ isGameEnded'
             /\ level' = level
             /\ player' = player
      ]_vars

\* lost at level 1 with the player standing within reach of the door that
\* would have won the session
WitnessC25 ==
    /\ gameState = "LOST" /\ isGameEnded /\ loopLevel = 1 /\ level = 1
    /\ NearDoor(St) /\ now - startTime >= TimeBudget

----------------------------------------------------------------------------
(* No double jump, under the session specification *)

----------------------------------------------------------------------------
(* Termination specification: one session, in which the player can walk    *)
(* the straight line to the door.  The flashlight can be switched off, and *)
(* the clock is read, up to 400 s, once it is off: the sanity ramp, which  *)
(* has its own specification, stays out of the state space.  Frame         *)
(* callbacks keep coming and the clock keeps advancing (the claim's        *)
(* assumptions), and React makes the commit it owes before the next frame  *)
(* callback runs.                                                          *)

LiveInstants == {100, 350, 400}

\* countdowns that were started or reset by this instant run out within
\* the instants the clock is read at
LiveHorizon == 100

SwitchOff == flashlightOn /\ LightButton

ClockAdvances == ~flashlightOn /\ \E t \in LiveInstants : TimePasses(t)

NextLive ==
    \/ Start(SessionDoors, SessionLayouts)
    \/ PromptTick
    \/ Commit(SessionDoors, SessionLayouts)
    \/ KeyDown("s")
    \/ SwitchOff
    \/ ClockAdvances

\* ENABLED <<PromptTick>>_vars: a frame callback is pending, no commit is
\* owed, and running it changes the state
TickChanges ==
    /\ ~dirty /\ loopLive
    /\ \E id \in pendingFrames, flick \in FlickerDraws(St, now) :
          animate([St EXCEPT !.pendingFrames = @ \ {id}], now, flick) # St

\* ENABLED <<Commit(SessionDoors, SessionLayouts)>>_vars
CommitOwed == dirty

\* ENABLED <<ClockAdvances>>_vars
ClockCanAdvance == ~flashlightOn /\ \E t \in LiveInstants : t > now

\* weak fairness of the frame callback, of React's commit and of the clock:
\* WF_vars(A) in its defining form []<>~ENABLED <<A>>_vars \/ []<><<A>>_vars,
\* with each enabling condition written as a state predicate
SpecLive ==
    /\ Init /\ [][NextLive]_vars
    /\ ([]<>(~TickChanges) \/ []<><<PromptTick>>_vars)
    /\ ([]<>(~CommitOwed) \/ []<><<Commit(SessionDoors, SessionLayouts)>>_vars)
    /\ ([]<>(~ClockCanAdvance) \/ []<><<ClockAdvances>>_vars)

----------------------------------------------------------------------------
(* Touch-over-sessions specification: sessions that run out of time and    *)
(* are started again, with two fingers that come down and lift at any      *)
(* moment, also while an end screen or the menu is shown.  The player      *)
(* stands still.                                                           *)

RestartInstants == {TimeBudget, 2 * TimeBudget}

RestartTouches ==
    { <<Touch(0, 100, 100, "")>>, <<Touch(1, 200, 400, "")>>,
      <<Touch(0, 728, 400, "")>>, <<Touch(1, 728, 100, "")>> }

NextRestart ==
    \/ Start(SessionDoors, SessionLayouts)
    \/ Restart
    \/ Tick
    \/ Commit(SessionDoors, SessionLayouts)
    \/ \E t \in RestartInstants : TimePasses(t)
    \/ \E touches \in RestartTouches : TouchStart(touches)
    \/ \E touches \in RestartTouches : TouchEnd(touches)

SpecRestart == Init /\ [][NextRestart]_vars

\* the original statement of C28: whenever a PLAYING session begins,
\* neither touch slot holds a touch identifier, so that the first left-half
\* touch of the session is acquired as the joystick and the first
\* right-half touch as look.
CounterC28 ==
    /\ [][ Start(SessionDoors, SessionLayouts)
              => touchIdLeft' = Null /\ touchIdRight' = Null ]_vars
    /\ [][ \A touches \in RestartTouches :
              (TouchStart(touches) /\ loopLive /\ activeTouches = {})
                => \/ touchIdLeft' = touches[1].identifier
                   \/ touchIdRight' = touches[1].identifier ]_vars

====
